---- MODULE Spec2Model ----
(***************************************************************************)
(* Voice cloning pipeline of Dubstudio: the useVoiceSystem hook            *)
(* (src/hooks/useVoiceSystem.ts), the VoiceManager registry                *)
(* (src/services/VoiceManager.ts), extractAudioClip and its WAV encoder    *)
(* audioBufferToWav (src/utils/audioUtils.ts).  No component of the         *)
(* repository mounts the hook, so its two arguments are given by a host    *)
(* that may render it with any media source and any analysis result.       *)
(*                                                                         *)
(* Times are integers counted in units of 1/TimeDen second, and audio      *)
(* samples are integers counted in units of 1/SampleDen (SampleDen is      *)
(* full scale, 1.0).  A run is one invocation of initializeVoices; runs    *)
(* never stop each other, so several can be in flight and all write the    *)
(* one hook state.                                                         *)
(***************************************************************************)
EXTENDS Integers, Sequences, FiniteSets, Bags, TLC

VARIABLES
    apiKey,          \* VoiceManagerService.apiKey
    voiceMap,        \* VoiceManagerService.voiceMap: speaker id -> voice id
    videoFile,       \* useVoiceSystem: the argument videoFile (NoFile is null)
    analysisResult,  \* useVoiceSystem: the argument analysisResult (NoResult is null)
    effectPending,   \* useVoiceSystem: the effect of the last render has not run
    state,           \* useVoiceSystem: {isReady, progress, speakerStatus}
    callback,        \* useVoiceSystem: the videoFile and speakerStatus that the
                     \* synthesizeSegment held by the host closes over
    runs,            \* the invocations of initializeVoices, oldest first
    synth,           \* the synthesizeSegment call the last step made or settled
    speech,          \* the generateSpeech calls that have not settled (a bag)
    clip,            \* audioUtils: the arguments of an extractAudioClip call
    clipResult,      \* audioUtils: how that call settled
    buffer,          \* audioUtils: the argument of an audioBufferToWav call
    wav              \* audioUtils: the Blob that call returned

vars == <<apiKey, voiceMap, videoFile, analysisResult, effectPending,
          state, callback, runs, synth, speech, clip, clipResult, buffer, wav>>

-----------------------------------------------------------------------------
(* Bounds *)

MaxRuns == 2

\* generateSpeech calls in flight at a time
MaxSpeech == 1

MaxSegs == 2

MaxTime == 2

\* audio: frames of a decoded source, frames of a buffer to encode
MaxSource == 3

MaxFrames == 2

-----------------------------------------------------------------------------
(* Data *)

TimeDen == 2

SampleDen == 4

NoFile == "null"

Files == {"file_1"}

NoResult == [ref |-> "null", speakers |-> <<>>, segments |-> <<>>]

ApiKeys == {"undefined", "mock-key", "key"}

SampleRates == {1, 3}

Speaker(id, name) == [id |-> id, name |-> name]

Segment(id, spk, s, e) ==
    [id |-> id, speaker_id |-> spk, start_time |-> s, end_time |-> e]

spk_1 == Speaker("spk_1", "Interviewer")

spk_2 == Speaker("spk_2", "Expert")

spk_3 == Speaker("spk_3", "Guest")

SpeakerIds == {"spk_1", "spk_2", "spk_3"}

\* a speaker id that names a member of Object.prototype
PrototypeIds == {"constructor"}

\* the speaker ids synthesizeSegment is called with
CallIds == SpeakerIds \cup PrototypeIds

\* the analysis results a host passes: a speaker with segments of 1 s and
\* 3 s and a speaker without segments; other speakers, the first one with a
\* segment of zero length; no speaker with a segment
AnalyzeResults ==
    { [ref |-> "object",
       speakers |-> <<spk_1, spk_2>>,
       segments |-> << Segment("seg_1", "spk_1", 0, 2),
                       Segment("seg_2", "spk_1", 2, 8) >>],
      [ref |-> "object",
       speakers |-> <<spk_3, spk_2>>,
       segments |-> << Segment("seg_1", "spk_2", 0, 4),
                       Segment("seg_2", "spk_3", 6, 6) >>],
      [ref |-> "object",
       speakers |-> <<spk_3>>,
       segments |-> <<>>] }

PENDING == "PENDING"

CLONED == "CLONED"

FAILED == "FAILED"

\* the progress string: its fixed text and the values interpolated into it
Progress(text, name, k, total) ==
    [text |-> text, name |-> name, k |-> k, total |-> total]

NoProgress == Progress("", "", 0, 0)

Preparing == Progress("Preparing to clone voices...", "", 0, 0)

DemoReady == Progress("Demo voices ready (Mock Mode)", "", 0, 0)

CloningProgress(speaker, completedCount, total) ==
    Progress("Cloning voice for", speaker.name, completedCount + 1, total)

Complete == Progress("Voice cloning complete.", "", 0, 0)

\* a voice id: a string, whether it starts with "mock_", and what tells it
\* from the other ids
VoiceId(mock, spk, n) == [string |-> TRUE, mock |-> mock, spk |-> spk, n |-> n]

\* `mock_voice_${s.id}`
DemoVoiceId(spk) == VoiceId(TRUE, spk, 0)

\* `mock_voice_${speakerId}_${Date.now()}`
Stamps == {1, 2}

MockVoiceId(spk, now) == VoiceId(TRUE, spk, now)

\* a file_id that the response body holds as a number
NumberVoiceId == [string |-> FALSE, mock |-> FALSE, spk |-> "", n |-> 1]

\* data.file_id || data.voice_id of a successful upload: whatever truthy
\* value the response body holds, among them a string that starts with
\* "mock_" and a number
RemoteVoiceIds ==
    {VoiceId(FALSE, "", 1), VoiceId(FALSE, "", 2), VoiceId(TRUE, "", 1), NumberVoiceId}

EmptyMap == [id \in {} |-> VoiceId(FALSE, "", 0)]

EmptyStatus == [id \in {} |-> PENDING]

\* the result of a generateSpeech call that has not settled
Unsettled == ""

\* the last step neither made nor settled a call of synthesizeSegment
NoSynth ==
    [phase |-> "", speakerId |-> "",
     call |-> [result |-> Unsettled, voiceId |-> VoiceId(FALSE, "", 0),
               delayed |-> FALSE, requested |-> FALSE]]

-----------------------------------------------------------------------------
(* VoiceManagerService *)

isMockMode == apiKey = "undefined" \/ apiKey = "mock-key"

\* what registerVoice throws on the remote path: the upload is answered
\* with a status that is not ok, the body has neither file_id nor voice_id,
\* and, thrown again by the catch block, the rejections of fetch and of
\* response.json() and the TypeError of data.file_id when the body is the
\* JSON value null
RegisterErrors ==
    {"MiniMax Upload Failed", "No voice ID returned from API",
     "fetch rejected", "response.json() rejected", "TypeError"}

\* the outcomes of registerVoice: a voice id stored and returned, or a
\* throw; remote: the upload endpoint was requested
RegisterOutcomes(speakerId) ==
    IF isMockMode
    THEN {[ok |-> TRUE, voiceId |-> MockVoiceId(speakerId, now), error |-> "",
           remote |-> FALSE] : now \in Stamps}
    ELSE {[ok |-> TRUE, voiceId |-> v, error |-> "", remote |-> TRUE] :
             v \in RemoteVoiceIds}
         \cup {[ok |-> FALSE, voiceId |-> VoiceId(FALSE, "", 0), error |-> e,
                remote |-> TRUE] : e \in RegisterErrors}

\* (mutant) the mock branch is taken in mock mode only, whatever the voice id
generateSpeechByModeOnly(speakerId) ==
    IF speakerId \notin DOMAIN voiceMap
    THEN [result |-> "No voice registered", voiceId |-> VoiceId(FALSE, "", 0),
          delayed |-> FALSE, requested |-> FALSE]
    ELSE LET voiceId == voiceMap[speakerId] IN
         IF isMockMode
         THEN [result |-> Unsettled, voiceId |-> voiceId,
               delayed |-> TRUE, requested |-> FALSE]
         ELSE [result |-> Unsettled, voiceId |-> voiceId,
               delayed |-> FALSE, requested |-> TRUE]

\* (mutant) the mock branch is taken before the lookup: a missing voice id
\* is reported after the simulated delay
generateSpeechLateLookup(speakerId) ==
    IF speakerId \notin DOMAIN voiceMap
    THEN [result |-> "No voice registered", voiceId |-> VoiceId(FALSE, "", 0),
          delayed |-> isMockMode, requested |-> FALSE]
    ELSE LET voiceId == voiceMap[speakerId] IN
         IF isMockMode
         THEN [result |-> Unsettled, voiceId |-> voiceId,
               delayed |-> TRUE, requested |-> FALSE]
         ELSE IF ~voiceId.string
         THEN [result |-> "TypeError", voiceId |-> voiceId,
               delayed |-> FALSE, requested |-> FALSE]
         ELSE IF voiceId.mock
         THEN [result |-> Unsettled, voiceId |-> voiceId,
               delayed |-> TRUE, requested |-> FALSE]
         ELSE [result |-> Unsettled, voiceId |-> voiceId,
               delayed |-> FALSE, requested |-> TRUE]

\* generateSpeech(text, speakerId) up to its first await: it throws, or it
\* has started the 1000 ms timer of the mock branch (delayed), or it has
\* called fetch on the synthesis endpoint (requested).  In real mode
\* voiceId.startsWith is evaluated, which throws a TypeError when the voice
\* id is not a string
generateSpeech(speakerId) ==
    IF speakerId \notin DOMAIN voiceMap
    THEN [result |-> "No voice registered", voiceId |-> VoiceId(FALSE, "", 0),
          delayed |-> FALSE, requested |-> FALSE]
    ELSE LET voiceId == voiceMap[speakerId] IN
         IF isMockMode
         THEN [result |-> Unsettled, voiceId |-> voiceId,
               delayed |-> TRUE, requested |-> FALSE]
         ELSE IF ~voiceId.string
         THEN [result |-> "TypeError", voiceId |-> voiceId,
               delayed |-> FALSE, requested |-> FALSE]
         ELSE IF voiceId.mock
         THEN [result |-> Unsettled, voiceId |-> voiceId,
               delayed |-> TRUE, requested |-> FALSE]
         ELSE [result |-> Unsettled, voiceId |-> voiceId,
               delayed |-> FALSE, requested |-> TRUE]

\* how the synthesis endpoint answers a request
SpeechResponses == {"ok", "not ok", "fetch rejected", "response.blob() rejected"}

\* what a generateSpeech call that waited settles with: the mock branch
\* returns its fixed string after the timer; the remote branch returns an
\* object URL of the response body, throws on a status that is not ok, and
\* throws again what fetch or response.blob() rejected with
speechResult(call, response) ==
    IF call.delayed THEN "mock_audio_url"
    ELSE IF response = "ok" THEN "objectURL"
    ELSE IF response = "not ok" THEN "TTS Generation Failed"
    ELSE response

-----------------------------------------------------------------------------
(* extractAudioClip: the sample window and its check *)

Floor(num, den) == num \div den

startSample(segment, sampleRate) == Floor(segment.start_time * sampleRate, TimeDen)

endSample(segment, sampleRate) == Floor(segment.end_time * sampleRate, TimeDen)

frameCount(segment, sampleRate) ==
    endSample(segment, sampleRate) - startSample(segment, sampleRate)

\* extractAudioClip resolves iff the file decodes and the window is not empty
extractOk(segment, decoded, sampleRate) ==
    decoded /\ frameCount(segment, sampleRate) > 0

-----------------------------------------------------------------------------
(* audioBufferToWav *)

\* an AudioBuffer: channelData[c] is getChannelData(c - 1), all of one length
AudioBuffer(sampleRate, channelData) ==
    [numberOfChannels |-> Len(channelData), sampleRate |-> sampleRate,
     length |-> IF Len(channelData) = 0 THEN 0 ELSE Len(channelData[1]),
     channelData |-> channelData]

format == 1

bitDepth == 16

bytesPerSample == bitDepth \div 8

\* (mutant) the channels are written one after the other
InterleavePlanar(left, right) == left \o right

\* result[i * 2] = left[i]; result[i * 2 + 1] = right[i]
Interleave(left, right) ==
    [k \in 1..(2 * Len(left)) |->
        IF k % 2 = 1 THEN left[(k + 1) \div 2] ELSE right[k \div 2]]

\* the samples written: both channels of a stereo buffer, else channel 0
resultSamples(buf) ==
    IF buf.numberOfChannels = 2
    THEN Interleave(buf.channelData[1], buf.channelData[2])
    ELSE buf.channelData[1]

blockAlign(buf) == buf.numberOfChannels * bytesPerSample

\* DataView.setUint16 and setUint32, little endian
Uint16(n) == << n % 256, (n \div 256) % 256 >>

Uint32(n) ==
    << n % 256, (n \div 256) % 256, (n \div 65536) % 256, (n \div 16777216) % 256 >>

\* writeString: the char codes of 'RIFF', 'WAVE', 'fmt ' and 'data'
RIFF == << 82, 73, 70, 70 >>

WAVE == << 87, 65, 86, 69 >>

fmt == << 102, 109, 116, 32 >>

data == << 100, 97, 116, 97 >>

\* the 44 bytes written before the samples
header(buf) ==
    RIFF \o Uint32(36 + Len(resultSamples(buf)) * bytesPerSample) \o WAVE
        \o fmt \o Uint32(16) \o Uint16(format) \o Uint16(buf.numberOfChannels)
        \o Uint32(buf.sampleRate) \o Uint32(buf.sampleRate * blockAlign(buf))
        \o Uint16(blockAlign(buf)) \o Uint16(bitDepth)
        \o data \o Uint32(Len(resultSamples(buf)) * bytesPerSample)

\* (mutant) no clamp
ClampNothing(sample) == sample

\* Math.max(-1, Math.min(1, sample))
Clamp(sample) ==
    IF sample > SampleDen THEN SampleDen
    ELSE IF sample < -SampleDen THEN -SampleDen ELSE sample

\* ToInt16 of the number num/den, as DataView.setInt16 converts its value:
\* the fraction is dropped (toward zero), the integer wraps to 16 bits
ToInt16(num, den) ==
    LET int == IF num < 0 THEN -((-num) \div den) ELSE num \div den
        int16bit == int % 65536
    IN IF int16bit >= 32768 THEN int16bit - 65536 ELSE int16bit

\* the 16-bit value written for a sample: s < 0 ? s * 0x8000 : s * 0x7FFF
pcm(sample) ==
    LET s == Clamp(sample) IN
    ToInt16(IF s < 0 THEN s * 32768 ELSE s * 32767, SampleDen)

\* DataView.setInt16, little endian: the two bytes of a 16-bit value
Int16(value) == Uint16(value % 65536)

pcmBytes(samples) ==
    [k \in 1..(Len(samples) * bytesPerSample) |->
        Int16(pcm(samples[(k + 1) \div 2]))[IF k % 2 = 1 THEN 1 ELSE 2]]

\* the Blob returned: audioBufferToWav has no throw of its own
audioBufferToWav(buf) ==
    [error |-> "", type |-> "audio/wav", bytes |-> header(buf) \o pcmBytes(resultSamples(buf))]

NoBuffer == AudioBuffer(0, <<>>)

NoWav == [error |-> "", type |-> "", bytes |-> <<>>]

-----------------------------------------------------------------------------
(* extractAudioClip *)

\* (mutant) the copy starts at the first frame of the source
segmentDataFromZero(channelData, start, count) ==
    [i \in 1..count |-> IF i <= Len(channelData) THEN channelData[i] ELSE 0]

\* segmentData[i] = channelData[startSample + i], or 0 past the end
segmentData(channelData, start, count) ==
    [i \in 1..count |->
        IF start + i <= Len(channelData) THEN channelData[start + i] ELSE 0]

\* createBuffer(numberOfChannels, frameCount, sampleRate) and the copy
segmentBuffer(audioBuffer, start, count) ==
    AudioBuffer(audioBuffer.sampleRate,
        [c \in 1..audioBuffer.numberOfChannels |->
            segmentData(audioBuffer.channelData[c], start, count)])

\* a File: whether decodeAudioData resolves, and the AudioBuffer it gives
File(decodable, audioBuffer) == [decodable |-> decodable, audioBuffer |-> audioBuffer]

\* the catch block: whatever was thrown, one Error is thrown in its place
catchError(error) == "Audio extraction failed. ensure the file is a valid video/audio file."

Rejected(error) ==
    [status |-> "rejected", error |-> error, segmentBuffer |-> NoBuffer, blob |-> NoWav]

\* extractAudioClip(videoFile, startTime, endTime): the promise it returns
\* and, when it resolves, the buffer that was encoded
extractAudioClip(call) ==
    IF ~call.videoFile.decodable
    THEN Rejected(catchError("EncodingError: Unable to decode audio data"))
    ELSE LET audioBuffer == call.videoFile.audioBuffer IN
         IF frameCount(call, audioBuffer.sampleRate) <= 0
         THEN Rejected(catchError("Invalid time range for audio extraction"))
         ELSE LET segment == segmentBuffer(audioBuffer,
                                 startSample(call, audioBuffer.sampleRate),
                                 frameCount(call, audioBuffer.sampleRate))
              IN [status |-> "resolved", error |-> "", segmentBuffer |-> segment,
                  blob |-> audioBufferToWav(segment)]

NoClip == [videoFile |-> File(FALSE, NoBuffer), start_time |-> 0, end_time |-> 0]

NoClipResult ==
    [status |-> "", error |-> "", segmentBuffer |-> NoBuffer, blob |-> NoWav]

-----------------------------------------------------------------------------
(* initializeVoices: the cloning queue *)

Duration(segment) == segment.end_time - segment.start_time

speakerSegments(result, speaker) ==
    SelectSeq(result.segments, LAMBDA s : s.speaker_id = speaker.id)

\* Array.prototype.reduce without initial value, from index k with
\* accumulator prev
RECURSIVE ReduceLongest(_, _, _)
ReduceLongest(segs, k, prev) ==
    IF k > Len(segs) THEN prev
    ELSE LET current == segs[k] IN
         ReduceLongest(segs, k + 1,
                       IF Duration(current) > Duration(prev) THEN current ELSE prev)

\* (mutant) >= for >: of equally long segments the last one wins
RECURSIVE ReduceLongestOrEqual(_, _, _)
ReduceLongestOrEqual(segs, k, prev) ==
    IF k > Len(segs) THEN prev
    ELSE LET current == segs[k] IN
         ReduceLongestOrEqual(segs, k + 1,
                              IF Duration(current) >= Duration(prev) THEN current ELSE prev)

bestSegmentLastTie(segs) == ReduceLongestOrEqual(segs, 2, segs[1])

bestSegment(segs) == ReduceLongest(segs, 2, segs[1])

NullItem == [null |-> TRUE, speaker |-> Speaker("", ""), segment |-> Segment("", "", 0, 0)]

\* (mutant) a speaker without segments is queued with an empty window
QueueItemNoSkip(result, speaker) ==
    IF Len(speakerSegments(result, speaker)) = 0
    THEN [null |-> FALSE, speaker |-> speaker, segment |-> Segment("", speaker.id, 0, 0)]
    ELSE [null |-> FALSE, speaker |-> speaker,
          segment |-> bestSegment(speakerSegments(result, speaker))]

QueueItem(result, speaker) ==
    IF Len(speakerSegments(result, speaker)) = 0 THEN NullItem
    ELSE [null |-> FALSE, speaker |-> speaker,
          segment |-> bestSegment(speakerSegments(result, speaker))]

cloningQueue(result) ==
    SelectSeq([k \in 1..Len(result.speakers) |-> QueueItem(result, result.speakers[k])],
              LAMBDA item : ~item.null)

initialStatus(result) ==
    [id \in {result.speakers[k].id : k \in 1..Len(result.speakers)} |-> PENDING]

mockStatus(result) ==
    [id \in {result.speakers[k].id : k \in 1..Len(result.speakers)} |-> CLONED]

\* {...prev.speakerStatus, [speaker.id]: value}
SetStatus(speakerStatus, id, value) == (id :> value) @@ speakerStatus

\* (mutant) a speaker that has a voice id keeps it
MapSetKeepsFirst(map, id, voiceId) ==
    IF id \in DOMAIN map THEN map ELSE (id :> voiceId) @@ map

\* voiceMap.set(id, voiceId)
MapSet(map, id, voiceId) == (id :> voiceId) @@ map

\* (mutant) the voice id of the response is stored before the response is
\* checked
registerVoiceMapBeforeCheck(map, speakerId, outcome) ==
    MapSet(map, speakerId, outcome.voiceId)

\* (mutant) registerVoice returns the voice id and does not store it
registerVoiceMapNotStored(map, speakerId, outcome) == map

\* what registerVoice does to voiceMap: set on success, nothing on a throw
registerVoiceMap(map, speakerId, outcome) ==
    IF outcome.ok THEN MapSet(map, speakerId, outcome.voiceId) ELSE map

-----------------------------------------------------------------------------
(* initializeVoices: one invocation *)

\* an invocation: the videoFile and analysisResult it closed over, where it
\* is suspended (pc), its queue and loop counter, and the calls it has made
\* and how they settled, in order (log)
NewRun(file, result) ==
    [videoFile |-> file, analysisResult |-> result, pc |-> "start",
     cloningQueue |-> IF file = NoFile THEN <<>> ELSE cloningQueue(result),
     completedCount |-> 0, log |-> <<>>]

total(run) == Len(run.cloningQueue)

item(run) == run.cloningQueue[run.completedCount + 1]

Event(op, it) ==
    [op |-> op, speaker |-> it.speaker.id, segment |-> it.segment.id,
     voiceId |-> VoiceId(FALSE, "", 0), remote |-> FALSE]

Logged(run, op) == [run EXCEPT !.log = Append(@, Event(op, item(run)))]

\* registerVoice settled: it resolved with a voice id or threw, having
\* requested the upload endpoint or not
LoggedReturn(run, outcome) ==
    [run EXCEPT !.log =
        Append(@, [Event(IF outcome.ok THEN "registered" ELSE "register threw", item(run))
                      EXCEPT !.voiceId = outcome.voiceId, !.remote = outcome.remote])]

\* (mutant) the reset merges the new entries into the previous map
ResetStateKeepsEntries(result) ==
    [isReady |-> FALSE, progress |-> Preparing,
     speakerStatus |-> initialStatus(result) @@ state.speakerStatus]

\* setState({isReady: false, progress: 'Preparing...', speakerStatus: initialStatus})
ResetState(result) ==
    [isReady |-> FALSE, progress |-> Preparing, speakerStatus |-> initialStatus(result)]

\* (mutant) the final setState is inside the loop
LoopStateReadyInLoop(st, run) ==
    IF run.completedCount < total(run)
    THEN [st EXCEPT !.isReady = TRUE,
                    !.progress = CloningProgress(item(run).speaker, run.completedCount, total(run))]
    ELSE [st EXCEPT !.isReady = TRUE, !.progress = Complete]

\* (mutant) the final setState leaves isReady out
LoopStateNeverReady(st, run) ==
    IF run.completedCount < total(run)
    THEN [st EXCEPT !.progress = CloningProgress(item(run).speaker, run.completedCount, total(run))]
    ELSE [st EXCEPT !.progress = Complete]

\* the head of the for loop: the next iteration runs up to its call of
\* extractAudioClip, or the loop is over and the run sets isReady
LoopState(st, run) ==
    IF run.completedCount < total(run)
    THEN [st EXCEPT !.progress = CloningProgress(item(run).speaker, run.completedCount, total(run))]
    ELSE [st EXCEPT !.isReady = TRUE, !.progress = Complete]

LoopRun(run) ==
    IF run.completedCount < total(run)
    THEN [Logged(run, "extract") EXCEPT !.pc = "extract"]
    ELSE [run EXCEPT !.pc = "done"]

\* setState(prev => ({...prev, speakerStatus: {...prev.speakerStatus, [speaker.id]: value}}))
WriteStatus(st, run, value) ==
    [st EXCEPT !.speakerStatus = SetStatus(@, item(run).speaker.id, value)]

\* completedCount++
Advance(run) == [run EXCEPT !.completedCount = @ + 1]

\* (mutant) registerVoice is called without await: the loop goes on at once
RegisteringNoAwait(run) ==
    IF run.completedCount + 1 < total(run)
    THEN [Logged(Advance(Logged(run, "register")), "extract") EXCEPT !.pc = "extract"]
    ELSE [Advance(Logged(run, "register")) EXCEPT !.pc = "done"]

\* extractAudioClip resolved: registerVoice is called with its blob
Registering(run) == [Logged(run, "register") EXCEPT !.pc = "register"]

\* (mutant) the try/catch encloses the loop: a throw ends it
CaughtLeavesLoop(run) == [Advance(run) EXCEPT !.pc = "done"]

\* (mutant) the catch block tries the same speaker again
CaughtRetries(run) == LoopRun(run)

\* the catch block: the speaker is marked FAILED, and the loop goes on
Caught(run) == LoopRun(Advance(run))

CaughtState(st, run) == LoopState(WriteStatus(st, run, FAILED), Advance(run))

\* registerVoice resolved: the speaker is marked CLONED, and the loop goes on
Registered(run) == LoopRun(Advance(run))

RegisteredState(st, run) == LoopState(WriteStatus(st, run, CLONED), Advance(run))

\* the synchronous part of initializeVoices, up to its first await
StartedState(file, result) ==
    IF file = NoFile THEN ResetState(result)
    ELSE LoopState(ResetState(result), NewRun(file, result))

StartedRun(file, result) ==
    IF file = NoFile THEN [NewRun(file, result) EXCEPT !.pc = "demoWait"]
    ELSE LoopRun(NewRun(file, result))

\* the effect of useVoiceSystem, run with the dependencies (file, result)
Effect(file, result) ==
    IF result = NoResult
    THEN /\ state' = [state EXCEPT !.isReady = FALSE, !.progress = NoProgress]
         /\ runs' = runs
    ELSE /\ Len(runs) < MaxRuns
         /\ state' = StartedState(file, result)
         /\ runs' = Append(runs, StartedRun(file, result))

\* (mutant) the demo path leaves the registry alone
DemoVoiceMapUntouched(map, result) == map

\* the demo path after its timer: a placeholder voice id for every speaker
DemoVoiceMap(map, result) ==
    [id \in DOMAIN map \cup DOMAIN mockStatus(result) |->
        IF id \in DOMAIN mockStatus(result) THEN DemoVoiceId(id) ELSE map[id]]

DemoComplete(r) ==
    /\ r \in 1..Len(runs)
    /\ runs[r].pc = "demoWait"
    /\ voiceMap' = DemoVoiceMap(voiceMap, runs[r].analysisResult)
    /\ state' = [isReady |-> TRUE, progress |-> DemoReady,
                 speakerStatus |-> mockStatus(runs[r].analysisResult)]
    /\ runs' = [runs EXCEPT ![r].pc = "done"]
    /\ synth' = NoSynth
    /\ UNCHANGED <<callback, clip, clipResult, buffer, wav,
                   apiKey, videoFile, analysisResult, effectPending, speech>>

\* extractAudioClip settles: registerVoice is called, or the catch block runs
ExtractReturn(r, decoded, sampleRate) ==
    /\ r \in 1..Len(runs)
    /\ runs[r].pc = "extract"
    /\ IF extractOk(item(runs[r]).segment, decoded, sampleRate)
       THEN /\ runs' = [runs EXCEPT ![r] = Registering(runs[r])]
            /\ state' = state
       ELSE /\ runs' = [runs EXCEPT ![r] = Caught(Logged(runs[r], "extract threw"))]
            /\ state' = CaughtState(state, runs[r])
    /\ synth' = NoSynth
    /\ UNCHANGED <<callback, clip, clipResult, buffer, wav,
                   apiKey, voiceMap, videoFile, analysisResult, effectPending, speech>>

\* registerVoice settles
RegisterReturn(r, outcome) ==
    /\ r \in 1..Len(runs)
    /\ runs[r].pc = "register"
    /\ outcome \in RegisterOutcomes(item(runs[r]).speaker.id)
    /\ voiceMap' = registerVoiceMap(voiceMap, item(runs[r]).speaker.id, outcome)
    /\ IF outcome.ok
       THEN /\ runs' = [runs EXCEPT ![r] = Registered(LoggedReturn(runs[r], outcome))]
            /\ state' = RegisteredState(state, runs[r])
       ELSE /\ runs' = [runs EXCEPT ![r] = Caught(LoggedReturn(runs[r], outcome))]
            /\ state' = CaughtState(state, runs[r])
    /\ synth' = NoSynth
    /\ UNCHANGED <<callback, clip, clipResult, buffer, wav,
                   apiKey, videoFile, analysisResult, effectPending, speech>>

-----------------------------------------------------------------------------
(* synthesizeSegment *)

VoiceNotAvailable ==
    [result |-> "Voice not available", voiceId |-> VoiceId(FALSE, "", 0),
     delayed |-> FALSE, requested |-> FALSE]

\* speakerStatus[speakerId] on an object literal: the speaker's entry, a
\* member inherited from Object.prototype (a function, which is truthy), or
\* undefined
Inherited == "inherited"

Undefined == "undefined"

Lookup(speakerStatus, speakerId) ==
    IF speakerId \in DOMAIN speakerStatus THEN speakerStatus[speakerId]
    ELSE IF speakerId \in PrototypeIds THEN Inherited
    ELSE Undefined

\* synthesizeSegment(speakerId, text) up to its await, on the videoFile and
\* the speakerStatus of the render that made the callback: the availability
\* check, skipped without a media source, then the call of generateSpeech
synthesizeSegmentCall(speakerId) ==
    IF callback.videoFile = NoFile THEN generateSpeech(speakerId)
    ELSE IF Lookup(callback.speakerStatus, speakerId) \in {Undefined, FAILED}
         THEN VoiceNotAvailable
         ELSE generateSpeech(speakerId)

\* a call of synthesizeSegment: it is rejected at once, or its generateSpeech
\* call waits for the timer or for the synthesis endpoint
synthesizeSegment(speakerId) ==
    LET call == synthesizeSegmentCall(speakerId) IN
    /\ call.result = Unsettled => BagCardinality(speech) < MaxSpeech
    /\ synth' = [phase |-> "call", speakerId |-> speakerId, call |-> call]
    /\ speech' = IF call.result = Unsettled
                 THEN speech (+) SetToBag({[speakerId |-> speakerId, call |-> call]})
                 ELSE speech
    /\ UNCHANGED <<callback, clip, clipResult, buffer, wav,
                   apiKey, voiceMap, videoFile, analysisResult, effectPending,
                   state, runs>>

\* a generateSpeech call that waited settles, and with it the call of
\* synthesizeSegment that awaits it
generateSpeechReturn(pending, response) ==
    /\ BagIn(pending, speech)
    /\ synth' = [phase |-> "return", speakerId |-> pending.speakerId,
                 call |-> [pending.call EXCEPT !.result = speechResult(pending.call, response)]]
    /\ speech' = speech (-) SetToBag({pending})
    /\ UNCHANGED <<callback, clip, clipResult, buffer, wav,
                   apiKey, voiceMap, videoFile, analysisResult, effectPending,
                   state, runs>>

-----------------------------------------------------------------------------
(* The host of the hook *)

\* a render of the host that calls useVoiceSystem(file, result) with a
\* changed dependency: the hook body returns the state as written and a
\* synthesizeSegment that closes over the new videoFile and the written
\* speakerStatus, which the host takes; the effect is left to run later.
\* The dependencies are compared with Object.is: null is null, and an
\* object is the one of the render before (sameFile, sameResult) or
\* another object, whose contents may be the same.  An effect that is
\* pending runs before the next render
useVoiceSystem(file, result, sameFile, sameResult) ==
    /\ ~effectPending
    /\ sameFile => file = videoFile
    /\ sameResult => result = analysisResult
    /\ (file = NoFile /\ videoFile = NoFile) => sameFile
    /\ (result = NoResult /\ analysisResult = NoResult) => sameResult
    /\ ~(sameFile /\ sameResult)
    /\ result # NoResult => Len(runs) < MaxRuns
    /\ videoFile' = file
    /\ analysisResult' = result
    /\ effectPending' = TRUE
    /\ callback' = [videoFile |-> file, speakerStatus |-> state.speakerStatus]
    /\ synth' = NoSynth
    /\ UNCHANGED <<clip, clipResult, buffer, wav,
                   apiKey, voiceMap, state, runs, speech>>

\* a render of the host with the arguments of the render before, as React
\* schedules one after a setState that changed the state: no effect is
\* left to run (the dependencies are the same), and the host takes the
\* synthesizeSegment that the hook body returns.  Until then the host calls
\* the callback of an earlier render, whatever was written since
Rerender ==
    /\ ~effectPending
    /\ callback' = [videoFile |-> videoFile, speakerStatus |-> state.speakerStatus]
    /\ callback' # callback
    /\ synth' = NoSynth
    /\ UNCHANGED <<clip, clipResult, buffer, wav, apiKey, voiceMap, videoFile,
                   analysisResult, effectPending, state, runs, speech>>

\* the effect callback of the last render is invoked
useEffect ==
    /\ effectPending
    /\ effectPending' = FALSE
    /\ Effect(videoFile, analysisResult)
    /\ synth' = NoSynth
    /\ UNCHANGED <<callback, clip, clipResult, buffer, wav,
                   apiKey, voiceMap, videoFile, analysisResult, speech>>

-----------------------------------------------------------------------------
(* The hook with its host and the registry *)

\* the hook is mounted: its first render has returned the initial state and
\* its effect has not run
Init ==
    /\ apiKey \in ApiKeys
    /\ voiceMap = EmptyMap
    /\ videoFile \in Files \cup {NoFile}
    /\ analysisResult \in AnalyzeResults \cup {NoResult}
    /\ effectPending = TRUE
    /\ state = [isReady |-> FALSE, progress |-> NoProgress, speakerStatus |-> EmptyStatus]
    /\ callback = [videoFile |-> videoFile, speakerStatus |-> EmptyStatus]
    /\ runs = <<>>
    /\ synth = NoSynth
    /\ speech = EmptyBag
    /\ clip = NoClip
    /\ clipResult = NoClipResult
    /\ buffer = NoBuffer
    /\ wav = NoWav

Next ==
    \/ \E file \in Files \cup {NoFile}, result \in AnalyzeResults \cup {NoResult},
          sameFile \in BOOLEAN, sameResult \in BOOLEAN :
          useVoiceSystem(file, result, sameFile, sameResult)
    \/ useEffect
    \/ Rerender
    \/ \E r \in 1..MaxRuns : DemoComplete(r)
    \/ \E r \in 1..MaxRuns, decoded \in BOOLEAN, sampleRate \in SampleRates :
          ExtractReturn(r, decoded, sampleRate)
    \/ \E r \in 1..MaxRuns, outcome \in UNION {RegisterOutcomes(id) : id \in SpeakerIds} :
          RegisterReturn(r, outcome)
    \/ \E speakerId \in CallIds : synthesizeSegment(speakerId)
    \/ \E pending \in BagToSet(speech), response \in SpeechResponses :
          generateSpeechReturn(pending, response)

Spec == Init /\ [][Next]_vars

-----
(* One run: the hook mounted with a media source (or none) and an analysis  *)
(* result, the effect run once, and no later change of either input        *)

SegmentChoices ==
    {[speaker_id |-> id, start_time |-> s, end_time |-> e] :
        id \in {"spk_1", "spk_2"},
        s \in 0..MaxTime, e \in 0..MaxTime} 

SegmentLists ==
    UNION {[1..n -> {c \in SegmentChoices : c.start_time <= c.end_time}] : n \in 0..MaxSegs}

Segments(list) ==
    [k \in 1..Len(list) |->
        Segment("seg_" \o ToString(k), list[k].speaker_id, list[k].start_time, list[k].end_time)]

RunResults ==
    {[ref |-> "object", speakers |-> speakers, segments |-> Segments(list)] :
        speakers \in {<<spk_1, spk_2>>, <<spk_2, spk_3, spk_1>>},
        list \in SegmentLists}

InitRun ==
    \E file \in Files \cup {NoFile}, result \in RunResults :
        /\ apiKey \in {"mock-key", "key"}
        /\ voiceMap = EmptyMap
        /\ videoFile = file
        /\ analysisResult = result
        /\ effectPending = FALSE
        /\ state = StartedState(file, result)
        /\ callback = [videoFile |-> file, speakerStatus |-> EmptyStatus]
        /\ runs = <<StartedRun(file, result)>>
        /\ synth = NoSynth
        /\ speech = EmptyBag
        /\ clip = NoClip
        /\ clipResult = NoClipResult
        /\ buffer = NoBuffer
        /\ wav = NoWav

NextRun ==
    \/ DemoComplete(1)
    \/ \E decoded \in BOOLEAN, sampleRate \in SampleRates :
          ExtractReturn(1, decoded, sampleRate)
    \/ \E outcome \in UNION {RegisterOutcomes(id) : id \in SpeakerIds} :
          RegisterReturn(1, outcome)

SpecRun == InitRun /\ [][NextRun]_vars

\* every timer fires and every call of extractAudioClip and registerVoice
\* settles
FairRun ==
    /\ WF_vars(DemoComplete(1))
    /\ WF_vars(\E decoded \in BOOLEAN, sampleRate \in SampleRates :
                  ExtractReturn(1, decoded, sampleRate))
    /\ WF_vars(\E outcome \in UNION {RegisterOutcomes(id) : id \in SpeakerIds} :
                  RegisterReturn(1, outcome))

SpecRunFair == SpecRun /\ FairRun

-----------------------------------------------------------------------------
(* audioUtils alone: one call of extractAudioClip, and one call of          *)
(* audioBufferToWav, each on arguments drawn from a bounded set             *)

\* the hook and the registry are not used
Idle ==
    /\ apiKey = "mock-key"
    /\ voiceMap = EmptyMap
    /\ videoFile = NoFile
    /\ analysisResult = NoResult
    /\ effectPending = FALSE
    /\ state = [isReady |-> FALSE, progress |-> NoProgress, speakerStatus |-> EmptyStatus]
    /\ callback = [videoFile |-> NoFile, speakerStatus |-> EmptyStatus]
    /\ runs = <<>>
    /\ synth = NoSynth
    /\ speech = EmptyBag

\* decoded sources: one or two channels of 1..MaxSource frames
SourceSamples == {-1, SampleDen}

Sources ==
    {AudioBuffer(sampleRate, channelData) :
        sampleRate \in SampleRates,
        channelData \in UNION {[1..c -> [1..n -> SourceSamples]] :
                                  c \in {1, 2}, n \in 1..MaxSource}}

ClipCalls ==
    {[videoFile |-> file, start_time |-> s, end_time |-> e] :
        file \in {File(TRUE, b) : b \in Sources} \cup {File(FALSE, NoBuffer)},
        s \in 0..MaxTime, e \in 0..MaxTime}

InitExtract ==
    /\ Idle
    /\ clip \in ClipCalls
    /\ clipResult = NoClipResult
    /\ buffer = NoBuffer
    /\ wav = NoWav

\* the call settles
ExtractClip ==
    /\ clipResult = NoClipResult
    /\ clipResult' = extractAudioClip(clip)
    /\ UNCHANGED <<callback, clip, buffer, wav, apiKey, voiceMap, videoFile,
                   analysisResult, effectPending, state, runs, synth, speech>>

SpecExtract == InitExtract /\ [][ExtractClip]_vars

\* buffers to encode: mono over every sample value from -2.0 to 2.0, and
\* two and three channels over three sample values
FullSamples == (-2 * SampleDen)..(2 * SampleDen)

LayoutSamples == {-2 * SampleDen, 0, 1}

WavBuffers ==
    {AudioBuffer(sampleRate, channelData) :
        sampleRate \in SampleRates,
        channelData \in UNION {[1..1 -> [1..n -> FullSamples]] : n \in 1..MaxFrames}
                        \cup UNION {[1..c -> [1..n -> LayoutSamples]] :
                                       c \in {2, 3}, n \in 1..MaxFrames}}

InitWav ==
    /\ Idle
    /\ clip = NoClip
    /\ clipResult = NoClipResult
    /\ buffer \in WavBuffers
    /\ wav = NoWav

\* the call returns
EncodeWav ==
    /\ wav = NoWav
    /\ wav' = audioBufferToWav(buffer)
    /\ UNCHANGED <<callback, clip, clipResult, buffer, apiKey, voiceMap, videoFile,
                   analysisResult, effectPending, state, runs, synth, speech>>

SpecWav == InitWav /\ [][EncodeWav]_vars

-----------------------------------------------------------------------------
(* Properties *)

Ids(result) == {result.speakers[k].id : k \in 1..Len(result.speakers)}

StatusIs(id, value) ==
    id \in DOMAIN state.speakerStatus /\ state.speakerStatus[id] = value

\* the status of a speaker in the render that made the callback
RenderedStatusIs(id, value) ==
    id \in DOMAIN callback.speakerStatus /\ callback.speakerStatus[id] = value

\* the host holds the synthesizeSegment of a render with a media source
RenderedWithFile == callback.videoFile # NoFile

\* the last step made a call of synthesizeSegment: callback, state and
\* voiceMap are as the call found them
SynthCalled == synth.phase = "call"

\* the last step settled a call of synthesizeSegment that waited
SynthReturned == synth.phase = "return"

\* C1: in real mode (a media source is present) synthesizeSegment is rejected
\* with the voice-unavailable error whenever the speaker's status is not
\* CLONED (PENDING, FAILED or absent), and generateSpeech is not reached
C1_RejectedUnlessCloned ==
    (SynthCalled /\ videoFile # NoFile /\ RenderedWithFile
        /\ ~RenderedStatusIs(synth.speakerId, CLONED))
        => synth.call = VoiceNotAvailable

\* C2: in demo mode (no media source), once the run for the current
\* analysis result has started, synthesizeSegment for a speaker of that
\* result is never rejected, neither by the availability check nor for a
\* missing voice id, also while the status is PENDING
C2_DemoNeverRejected ==
    (SynthCalled /\ videoFile = NoFile /\ ~RenderedWithFile
        /\ analysisResult # NoResult
        /\ ~effectPending /\ synth.speakerId \in Ids(analysisResult))
        => synth.call.result \notin {"Voice not available", "No voice registered"}

\* the step starts a run (the effect ran with an analysis result)
RunStarts == Len(runs') = Len(runs) + 1

\* the step is the continuation of invocation r
StepOf(r) == r \in 1..Len(runs) /\ Len(runs') = Len(runs) /\ runs'[r] # runs[r]

\* invocation r was superseded: a later run has started
Superseded(r) == r < Len(runs)

\* C3: once a speaker's status is CLONED or FAILED it does not change (and
\* the entry does not disappear) until a new run resets the map
C3_SettledStatusKept ==
    [][~RunStarts =>
         \A id \in DOMAIN state.speakerStatus :
            state.speakerStatus[id] \in {CLONED, FAILED}
                => /\ id \in DOMAIN state'.speakerStatus
                   /\ state'.speakerStatus[id] = state.speakerStatus[id]]_vars

\* C6: a step of a superseded run changes neither the status map nor the
\* progress string nor isReady
C6_StaleWritesDropped ==
    [][\A r \in 1..Len(runs) : (Superseded(r) /\ StepOf(r)) => state' = state]_vars

\* the calls a run has made so far are calls of extractAudioClip that have
\* not settled
NothingSettled(run) == \A k \in 1..Len(run.log) : run.log[k].op = "extract"

\* C7 as stated: when a run starts, the status map is exactly one PENDING
\* entry per speaker of its analysis result, isReady is false and the
\* progress text is set, before any extraction or registration of the run
C7_StartResetsNotReady ==
    [][RunStarts =>
         LET run == runs'[Len(runs')] IN
         /\ state'.speakerStatus = initialStatus(run.analysisResult)
         /\ state'.isReady = FALSE
         /\ state'.progress # NoProgress
         /\ NothingSettled(run)]_vars

\* C7 amended: as above, but a real-path run with an empty cloning queue
\* completes in its starting step and leaves isReady true
C7_StartResets ==
    [][RunStarts =>
         LET run == runs'[Len(runs')] IN
         /\ state'.speakerStatus = initialStatus(run.analysisResult)
         /\ NothingSettled(run)
         /\ IF run.videoFile # NoFile /\ run.cloningQueue = <<>>
            THEN run.pc = "done" /\ state'.isReady = TRUE /\ state'.progress = Complete
            ELSE run.pc # "done" /\ state'.isReady = FALSE /\ state'.progress # NoProgress]_vars

\* a second run has just started on the real path and an entry of the
\* first run's speakers is gone from the map
C7_Witness ==
    /\ Len(runs) = 2
    /\ runs[1].pc = "done"
    /\ runs[2].pc = "extract"
    /\ Len(runs[2].log) = 1
    /\ state.isReady = FALSE
    /\ state.speakerStatus = initialStatus(runs[2].analysisResult)
    /\ \E id \in Ids(runs[1].analysisResult) : id \notin DOMAIN state.speakerStatus

\* C8: a demo run calls neither extractAudioClip nor registerVoice, and the
\* step that completes it leaves a placeholder voice id for every speaker of
\* its analysis result, every status CLONED and isReady true
C8_DemoPath ==
    [][/\ \A r \in 1..Len(runs') : runs'[r].videoFile = NoFile => runs'[r].log = <<>>
       /\ \A r \in 1..Len(runs) :
            (runs[r].videoFile = NoFile /\ StepOf(r)) =>
                /\ runs'[r].pc = "done"
                /\ \A id \in Ids(runs[r].analysisResult) :
                      id \in DOMAIN voiceMap' /\ voiceMap'[id] = DemoVoiceId(id)
                /\ state'.speakerStatus = mockStatus(runs[r].analysisResult)
                /\ state'.isReady = TRUE]_vars

C8_Witness ==
    \E r \in 1..Len(runs) :
        /\ runs[r].videoFile = NoFile
        /\ runs[r].pc = "done"
        /\ runs[r].log = <<>>
        /\ Ids(runs[r].analysisResult) # {}
        /\ \A id \in Ids(runs[r].analysisResult) :
              id \in DOMAIN voiceMap /\ voiceMap[id] = DemoVoiceId(id)
        /\ state.speakerStatus = mockStatus(runs[r].analysisResult)
        /\ state.isReady = TRUE

-----------------------------------------------------------------------------
(* Properties of one run (SpecRun) *)

Did(run, op, id) ==
    \E k \in 1..Len(run.log) : run.log[k].op = op /\ run.log[k].speaker = id

Threw(run, id) == Did(run, "extract threw", id) \/ Did(run, "register threw", id)

HasSegment(result, id) ==
    \E k \in 1..Len(result.segments) : result.segments[k].speaker_id = id

\* C4: when extraction or registration throws for a queued speaker, the
\* speaker is FAILED, the next queued speaker's extraction is called (or the
\* run is done), every speaker whose registration resolved is CLONED, and a
\* finished run has called extractAudioClip for every queued speaker and is
\* ready
C4_FailureIsolated ==
    LET run == runs[1] IN
    run.videoFile # NoFile =>
        /\ \A k \in 1..total(run) :
              LET id == run.cloningQueue[k].speaker.id IN
              /\ Threw(run, id) =>
                    /\ StatusIs(id, FAILED)
                    /\ IF k < total(run)
                       THEN Did(run, "extract", run.cloningQueue[k + 1].speaker.id)
                       ELSE run.pc = "done"
              /\ Did(run, "registered", id) => StatusIs(id, CLONED)
              /\ run.pc = "done" => Did(run, "extract", id)
        /\ run.pc = "done" => state.isReady = TRUE

\* registration threw for one queued speaker and a later one was cloned
C4_Witness ==
    LET run == runs[1] IN
    /\ run.pc = "done"
    /\ \E k \in 1..total(run), j \in 1..total(run) :
          /\ k < j
          /\ Did(run, "register threw", run.cloningQueue[k].speaker.id)
          /\ StatusIs(run.cloningQueue[k].speaker.id, FAILED)
          /\ Did(run, "registered", run.cloningQueue[j].speaker.id)
          /\ StatusIs(run.cloningQueue[j].speaker.id, CLONED)

\* C5: when every timer fires and every call settles, the run sets isReady
C5_RunGetsReady == <>(runs[1].pc = "done" /\ state.isReady = TRUE)

\* a run is ready after failing one speaker and cloning another
C5_Witness ==
    /\ runs[1].pc = "done"
    /\ state.isReady = TRUE
    /\ \E id \in DOMAIN state.speakerStatus : state.speakerStatus[id] = FAILED
    /\ \E id \in DOMAIN state.speakerStatus : state.speakerStatus[id] = CLONED

\* C9: the speakers queued are those with a segment; the sample of each is
\* a segment of that speaker, none of the speaker's segments is longer,
\* every earlier one is shorter, and it is the segment extracted
C9_LongestFirstSample ==
    LET run == runs[1]
        result == run.analysisResult
    IN
    run.videoFile # NoFile =>
        /\ \A s \in 1..Len(result.speakers) :
              HasSegment(result, result.speakers[s].id) =>
                 \E q \in 1..total(run) : run.cloningQueue[q].speaker = result.speakers[s]
        /\ \A q \in 1..total(run) :
              LET it == run.cloningQueue[q] IN
              \E j \in 1..Len(result.segments) :
                 /\ result.segments[j] = it.segment
                 /\ it.segment.speaker_id = it.speaker.id
                 /\ \A k \in 1..Len(result.segments) :
                       result.segments[k].speaker_id = it.speaker.id =>
                          /\ Duration(result.segments[k]) <= Duration(it.segment)
                          /\ k < j => Duration(result.segments[k]) < Duration(it.segment)
        /\ \A k \in 1..Len(run.log) :
              \E q \in 1..total(run) :
                 /\ run.cloningQueue[q].speaker.id = run.log[k].speaker
                 /\ run.cloningQueue[q].segment.id = run.log[k].segment

\* a speaker's first two segments are equally long, a later one is shorter,
\* and the first was extracted
C9_Witness ==
    LET run == runs[1]
        result == run.analysisResult
    IN
    /\ run.videoFile # NoFile
    /\ Len(result.segments) >= 2
    /\ result.segments[1].speaker_id = result.segments[2].speaker_id
    /\ Duration(result.segments[1]) = Duration(result.segments[2])
    /\ Duration(result.segments[1]) > 0
    /\ \E k \in 1..Len(run.log) :
          /\ run.log[k].op = "registered"
          /\ run.log[k].speaker = result.segments[1].speaker_id
          /\ run.log[k].segment = result.segments[1].id

AllSucceeded(run) ==
    \A k \in 1..Len(run.log) : run.log[k].op \notin {"extract threw", "register threw"}

Settled(run, id) == Threw(run, id) \/ Did(run, "registered", id)

\* C10: a speaker without segments is never extracted or registered and is
\* never reported CLONED or FAILED; the run is ready as soon as the speakers
\* with segments have settled; when no call threw, the finished run has
\* every speaker with a segment CLONED
C10_ZeroSegmentSkipped ==
    LET run == runs[1]
        result == run.analysisResult
    IN
    run.videoFile # NoFile =>
        /\ \A id \in Ids(result) :
              ~HasSegment(result, id) =>
                 /\ \A k \in 1..Len(run.log) : run.log[k].speaker # id
                 /\ ~StatusIs(id, CLONED)
                 /\ ~StatusIs(id, FAILED)
        /\ (\A id \in Ids(result) : HasSegment(result, id) => Settled(run, id))
              => (run.pc = "done" /\ state.isReady = TRUE)
        /\ (run.pc = "done" /\ AllSucceeded(run))
              => \A id \in Ids(result) : HasSegment(result, id) => StatusIs(id, CLONED)

\* speakers [spk_1 with two segments, spk_2 with none], every call succeeded
C10_Witness ==
    LET run == runs[1]
        result == run.analysisResult
    IN
    /\ run.videoFile # NoFile
    /\ result.speakers = <<spk_1, spk_2>>
    /\ Len(result.segments) = 2
    /\ HasSegment(result, "spk_1")
    /\ ~HasSegment(result, "spk_2")
    /\ run.pc = "done"
    /\ AllSucceeded(run)
    /\ state.isReady = TRUE
    /\ state.speakerStatus = [spk_1 |-> CLONED, spk_2 |-> PENDING]

\* the position of a speaker in the cloning queue and in the speaker list
QueuePos(run, id) ==
    CHOOSE q \in 1..total(run) : run.cloningQueue[q].speaker.id = id

SpeakerPos(result, id) ==
    CHOOSE k \in 1..Len(result.speakers) : result.speakers[k].id = id

Count(run, op) == Cardinality({k \in 1..Len(run.log) : run.log[k].op = op})

\* the calls of extractAudioClip and registerVoice the run is waiting for
InFlight(run) ==
    Count(run, "extract") - Count(run, "extract threw")
        - Count(run, "register threw") - Count(run, "registered")

\* C11: within one run the queue follows the speaker list, the calls are
\* made in queue order, the extraction of a queued speaker is called only
\* after the speaker before it has settled and has its status CLONED or
\* FAILED, and the run never waits for more than one call
C11_OneAtATime ==
    LET run == runs[1]
        result == run.analysisResult
    IN
    run.videoFile # NoFile =>
        /\ \A q \in 1..total(run), p \in 1..total(run) :
              q < p => SpeakerPos(result, run.cloningQueue[q].speaker.id)
                          < SpeakerPos(result, run.cloningQueue[p].speaker.id)
        /\ \A j \in 1..Len(run.log), i \in 1..Len(run.log) :
              i < j => QueuePos(run, run.log[i].speaker) <= QueuePos(run, run.log[j].speaker)
        /\ \A j \in 1..Len(run.log) :
              (run.log[j].op = "extract" /\ QueuePos(run, run.log[j].speaker) > 1) =>
                 LET before == run.cloningQueue[QueuePos(run, run.log[j].speaker) - 1].speaker.id IN
                 /\ \E i \in 1..(j - 1) :
                       /\ run.log[i].speaker = before
                       /\ run.log[i].op \in {"extract threw", "register threw", "registered"}
                 /\ StatusIs(before, CLONED) \/ StatusIs(before, FAILED)
        /\ InFlight(run) \in {0, 1}
        /\ InFlight(run) = 1 <=> run.pc \in {"extract", "register"}

\* speakers [spk_2, spk_3, spk_1]: spk_2 was cloned, then spk_1 was
\* extracted, and its registration is awaited
C11_Witness ==
    LET run == runs[1] IN
    /\ run.videoFile # NoFile
    /\ run.analysisResult.speakers = <<spk_2, spk_3, spk_1>>
    /\ total(run) = 2
    /\ Len(run.log) = 5
    /\ run.log[3].op = "registered" /\ run.log[3].speaker = "spk_2"
    /\ run.log[4].op = "extract" /\ run.log[4].speaker = "spk_1"
    /\ run.pc = "register"
    /\ StatusIs("spk_2", CLONED)
    /\ StatusIs("spk_1", PENDING)

\* the step is the resolution of a registerVoice call of invocation r for
\* speaker id with voiceId
RegisteredStep(r, id, voiceId) ==
    /\ StepOf(r)
    /\ \E k \in (Len(runs[r].log) + 1)..Len(runs'[r].log) :
          /\ runs'[r].log[k].op = "registered"
          /\ runs'[r].log[k].speaker = id
          /\ runs'[r].log[k].voiceId = voiceId

\* the call of synthesizeSegment reached generateSpeech
ReachedGenerateSpeech == SynthCalled /\ synth.call # VoiceNotAvailable

\* C12: a registerVoice call that resolves leaves the speaker mapped to the
\* voice id it returned, whatever the speaker was mapped to before, and a
\* generateSpeech call that finds a voice id uses the one the speaker is
\* mapped to at the time of the call
C12_LaterHandleUsed ==
    [][/\ \A r \in 1..Len(runs) :
              StepOf(r) =>
                  \A id \in SpeakerIds,
                     voiceId \in UNION {{o.voiceId : o \in RegisterOutcomes(i)} : i \in SpeakerIds} :
                      RegisteredStep(r, id, voiceId) =>
                          (id \in DOMAIN voiceMap' /\ voiceMap'[id] = voiceId)
       /\ (ReachedGenerateSpeech /\ synth.call.result # "No voice registered")' =>
              (/\ synth'.speakerId \in DOMAIN voiceMap'
               /\ synth'.call.voiceId = voiceMap'[synth'.speakerId])]_vars

\* two runs registered the same speaker with different voice ids, the
\* speaker is mapped to the second run's, and generateSpeech used it
C12_Witness ==
    /\ Len(runs) = 2
    /\ \E i \in 1..Len(runs[1].log), j \in 1..Len(runs[2].log) :
          /\ runs[1].log[i].op = "registered"
          /\ runs[2].log[j].op = "registered"
          /\ runs[1].log[i].speaker = runs[2].log[j].speaker
          /\ runs[1].log[i].voiceId # runs[2].log[j].voiceId
          /\ runs[1].pc = "done"
          /\ voiceMap[runs[2].log[j].speaker] = runs[2].log[j].voiceId
          /\ SynthCalled
          /\ synth.speakerId = runs[2].log[j].speaker
          /\ synth.call.voiceId = runs[2].log[j].voiceId
          /\ synth.call.requested

\* C13: generateSpeech for a speaker that has no voice id throws "No voice
\* registered", in mock mode and in real mode, without the simulated delay
\* and without a request to the synthesis endpoint
C13_UnknownSpeakerFailsFast ==
    (ReachedGenerateSpeech /\ synth.speakerId \notin DOMAIN voiceMap)
        => (/\ synth.call.result = "No voice registered"
            /\ ~synth.call.delayed
            /\ ~synth.call.requested)

\* in mock mode, with voice ids registered for other speakers, generateSpeech
\* was called for a speaker without one
C13_Witness ==
    /\ ReachedGenerateSpeech
    /\ isMockMode
    /\ voiceMap # EmptyMap
    /\ synth.speakerId \notin DOMAIN voiceMap
    /\ synth.call.result = "No voice registered"

\* the step is a successful registerVoice call
SomeRegisteredStep ==
    \E r \in 1..Len(runs), id \in SpeakerIds : RegisteredStep(r, id, voiceMap'[id])

\* the step is the demo path storing its placeholders
DemoCompleteStep ==
    \E r \in 1..Len(runs) : StepOf(r) /\ runs[r].pc = "demoWait" /\ runs'[r].pc = "done"

\* the step is a registerVoice call that threw
RegisterThrewStep ==
    \E r \in 1..Len(runs) :
        /\ StepOf(r)
        /\ \E k \in (Len(runs[r].log) + 1)..Len(runs'[r].log) :
              runs'[r].log[k].op = "register threw"

\* C20 as stated: voiceMap changes only in a step that is a successful
\* registerVoice call
C20_OnlyRegisterChangesMap ==
    [][voiceMap' # voiceMap => SomeRegisteredStep]_vars

\* C20: voiceMap changes only in a step that is a successful registerVoice
\* call or the demo path storing its placeholders; a call of
\* synthesizeSegment and a registerVoice call that threw leave it as it was
C20_MapFrame ==
    [][/\ voiceMap' # voiceMap => (SomeRegisteredStep \/ DemoCompleteStep)
       /\ (SynthCalled \/ SynthReturned)' => voiceMap' = voiceMap
       /\ RegisterThrewStep => voiceMap' = voiceMap]_vars

\* a registerVoice call threw for a speaker that has a voice id from an
\* earlier registration, and the speaker still has it
C20_Witness ==
    /\ Len(runs) = 2
    /\ \E i \in 1..Len(runs[1].log), j \in 1..Len(runs[2].log) :
          /\ runs[1].log[i].op = "registered"
          /\ runs[2].log[j].op = "register threw"
          /\ runs[1].log[i].speaker = runs[2].log[j].speaker
          /\ runs[1].pc = "done"
          /\ runs[1].log[i].speaker \in DOMAIN voiceMap
          /\ voiceMap[runs[1].log[i].speaker] = runs[1].log[i].voiceId

\* the extractAudioClip call has settled
ClipSettled == clipResult # NoClipResult

\* the frames of the clip are the frames of the source from startSample on,
\* and 0 where the source has ended
ClipFrames ==
    LET source == clip.videoFile.audioBuffer
        start == startSample(clip, source.sampleRate)
        clipped == clipResult.segmentBuffer
    IN
    /\ clipped.numberOfChannels = source.numberOfChannels
    /\ clipped.sampleRate = source.sampleRate
    /\ clipped.length = endSample(clip, source.sampleRate) - start
    /\ \A c \in 1..source.numberOfChannels :
          /\ Len(clipped.channelData[c]) = clipped.length
          /\ \A i \in 0..(clipped.length - 1) :
                clipped.channelData[c][i + 1] =
                    IF start + i < source.length
                    THEN source.channelData[c][start + i + 1]
                    ELSE 0

\* C14: for a decodable source and end_time > start_time the call resolves
\* with floor(end_time * rate) - floor(start_time * rate) frames per channel,
\* frame i being source sample floor(start_time * rate) + i, or 0 past the
\* end of the source
C14_ExactFrames ==
    (ClipSettled /\ clip.videoFile.decodable /\ clip.end_time > clip.start_time)
        => (clipResult.status = "resolved" /\ ClipFrames)

\* C14, for the windows that hold at least one frame: the call resolves
\* with the frames as stated; a window of a decodable source that holds no
\* frame, also one with end_time > start_time, is rejected
C14_NonEmptyWindows ==
    (ClipSettled /\ clip.videoFile.decodable) =>
        IF frameCount(clip, clip.videoFile.audioBuffer.sampleRate) > 0
        THEN clipResult.status = "resolved" /\ ClipFrames
        ELSE clipResult.status = "rejected"

\* a stereo source of 2 frames at rate 3, the window from 0.5 s to 1 s: the
\* clip is frame 1 of the source and one frame of padding
C14_Witness ==
    /\ ClipSettled
    /\ clip.videoFile.decodable
    /\ clip.videoFile.audioBuffer.sampleRate = 3
    /\ clip.videoFile.audioBuffer.channelData = << <<-1, SampleDen>>, <<-1, -1>> >>
    /\ clip.start_time = 1
    /\ clip.end_time = 2
    /\ clipResult.status = "resolved"
    /\ clipResult.segmentBuffer.channelData = << <<SampleDen, 0>>, <<-1, 0>> >>

\* the error a caller gets for a file that cannot be decoded
DecodeError ==
    extractAudioClip([videoFile |-> File(FALSE, NoBuffer), start_time |-> 0,
                      end_time |-> MaxTime]).error

\* C15: the call is rejected when the file cannot be decoded and when
\* end_time <= start_time, and the error of a decodable file with
\* end_time <= start_time differs from the error of a file that cannot be
\* decoded
C15_ErrorsDistinct ==
    ClipSettled =>
        /\ ~clip.videoFile.decodable =>
              (clipResult.status = "rejected" /\ clipResult.error = DecodeError)
        /\ (clip.videoFile.decodable /\ clip.end_time <= clip.start_time) =>
              (clipResult.status = "rejected" /\ clipResult.error # DecodeError)

\* the audioBufferToWav call has returned
Encoded == wav # NoWav

\* reading a WAV file: little-endian fields at a byte offset from 0
ReadUint16(bytes, offset) == bytes[offset + 1] + 256 * bytes[offset + 2]

ReadUint32(bytes, offset) ==
    bytes[offset + 1] + 256 * bytes[offset + 2] + 65536 * bytes[offset + 3]
        + 16777216 * bytes[offset + 4]

ReadInt16(bytes, offset) ==
    IF ReadUint16(bytes, offset) >= 32768
    THEN ReadUint16(bytes, offset) - 65536
    ELSE ReadUint16(bytes, offset)

\* frames * channels * 2
DataLength(buf) == buf.length * buf.numberOfChannels * 2

\* C16: for a buffer of one or two channels the blob is 44 header bytes and
\* frames * channels * 2 data bytes; the header reads RIFF, 36 + data
\* length, WAVE, fmt, 16, format 1, the channel count, the sample rate,
\* byte rate = rate * channels * 2, block align = channels * 2, 16 bits,
\* data, data length; the sample of frame i and channel c is at data offset
\* (i * channels + c) * 2; a buffer of zeros gives data bytes of zero
C16_WavLayout ==
    (Encoded /\ buffer.numberOfChannels \in {1, 2}) =>
        LET bytes == wav.bytes
            channels == buffer.numberOfChannels
        IN
        /\ wav.error = ""
        /\ Len(bytes) = 44 + DataLength(buffer)
        /\ SubSeq(bytes, 1, 4) = << 82, 73, 70, 70 >>
        /\ ReadUint32(bytes, 4) = 36 + DataLength(buffer)
        /\ SubSeq(bytes, 9, 12) = << 87, 65, 86, 69 >>
        /\ SubSeq(bytes, 13, 16) = << 102, 109, 116, 32 >>
        /\ ReadUint32(bytes, 16) = 16
        /\ ReadUint16(bytes, 20) = 1
        /\ ReadUint16(bytes, 22) = channels
        /\ ReadUint32(bytes, 24) = buffer.sampleRate
        /\ ReadUint32(bytes, 28) = buffer.sampleRate * channels * 2
        /\ ReadUint16(bytes, 32) = channels * 2
        /\ ReadUint16(bytes, 34) = 16
        /\ SubSeq(bytes, 37, 40) = << 100, 97, 116, 97 >>
        /\ ReadUint32(bytes, 40) = DataLength(buffer)
        /\ \A i \in 0..(buffer.length - 1), c \in 0..(channels - 1) :
              ReadInt16(bytes, 44 + (i * channels + c) * 2)
                  = pcm(buffer.channelData[c + 1][i + 1])
        /\ (\A c \in 1..channels, i \in 1..buffer.length : buffer.channelData[c][i] = 0)
              => \A k \in 45..Len(bytes) : bytes[k] = 0

\* a stereo buffer of two frames, left (above 1.0, 0) and right (0, 1/SampleDen):
\* the data reads left, right, left, right
C16_Witness ==
    /\ Encoded
    /\ buffer.sampleRate = 3
    /\ buffer.channelData = << <<-2 * SampleDen, 0>>, <<0, 1>> >>
    /\ Len(wav.bytes) = 52
    /\ ReadUint32(wav.bytes, 28) = 12
    /\ ReadInt16(wav.bytes, 44) = -32768
    /\ ReadInt16(wav.bytes, 46) = 0
    /\ ReadInt16(wav.bytes, 48) = 0
    /\ ReadInt16(wav.bytes, 50) = pcm(1)

\* the 16-bit value in the blob for the k-th sample written
Written(k) == ReadInt16(wav.bytes, 44 + (k - 1) * 2)

\* C17: a sample above 1.0 is written as 32767, the value written for 1.0,
\* a sample below -1.0 as -32768, the value written for -1.0, and every
\* value written is two bytes that read as a signed 16-bit integer
C17_Clamped ==
    Encoded =>
        /\ pcm(SampleDen) = 32767
        /\ pcm(-SampleDen) = -32768
        /\ \A k \in 1..Len(resultSamples(buffer)) :
              LET sample == resultSamples(buffer)[k] IN
              /\ sample > SampleDen => Written(k) = 32767
              /\ sample < -SampleDen => Written(k) = -32768
              /\ Written(k) \in -32768..32767
              /\ wav.bytes[44 + 2 * k - 1] \in 0..255
              /\ wav.bytes[44 + 2 * k] \in 0..255

\* a mono buffer of the samples 2.0 and -2.0
C17_Witness ==
    /\ Encoded
    /\ buffer.channelData = << <<2 * SampleDen, -2 * SampleDen>> >>
    /\ Written(1) = 32767
    /\ Written(2) = -32768

\* C18: the value written for a sample is the integer nearest to the
\* clamped sample times 32768 (negative) or 32767 (not negative): it is
\* within one half of it
C18_Rounded ==
    Encoded =>
        \A k \in 1..Len(resultSamples(buffer)) :
            LET s == Clamp(resultSamples(buffer)[k])
                scaled == IF s < 0 THEN s * 32768 ELSE s * 32767
                diff == Written(k) * SampleDen - scaled
            IN 2 * (IF diff < 0 THEN -diff ELSE diff) <= SampleDen

\* C19: for a buffer of more than two channels the call fails and gives no
\* blob
C19_MoreChannelsRejected ==
    (Encoded /\ buffer.numberOfChannels > 2) => (wav.error # "" /\ wav.bytes = << >>)

\* the blob of a buffer of more than two channels: its header declares the
\* channels of the buffer and its data holds the samples of one
C19_HeaderDisagrees ==
    (Encoded /\ buffer.numberOfChannels > 2) =>
        /\ wav.error = ""
        /\ ReadUint16(wav.bytes, 22) = buffer.numberOfChannels
        /\ ReadUint16(wav.bytes, 32) = buffer.numberOfChannels * 2
        /\ ReadUint32(wav.bytes, 40) = buffer.length * 2
        /\ Len(wav.bytes) = 44 + buffer.length * 2

\* the positions in the log of a run of the events op for speaker id
Events(run, op, id) ==
    {k \in 1..Len(run.log) : run.log[k].op = op /\ run.log[k].speaker = id}

\* C21: in a real-path run every queued speaker has at most one call of
\* extractAudioClip and at most one call of registerVoice, the call of
\* registerVoice follows the speaker's extraction and that extraction did
\* not throw, and no call for the speaker follows a throw for the speaker
C21_AttemptedOnce ==
    LET run == runs[1] IN
    run.videoFile # NoFile =>
        \A q \in 1..total(run) :
            LET id == run.cloningQueue[q].speaker.id IN
            /\ Cardinality(Events(run, "extract", id)) <= 1
            /\ Cardinality(Events(run, "register", id)) <= 1
            /\ \A j \in Events(run, "register", id) :
                  /\ \E i \in Events(run, "extract", id) : i < j
                  /\ Events(run, "extract threw", id) = {}
            /\ \A i \in Events(run, "extract threw", id) \cup Events(run, "register threw", id) :
                  \A j \in (i + 1)..Len(run.log) : run.log[j].speaker # id

\* the extraction of the first queued speaker threw, the registration of
\* the second threw, and the run is done with four calls made
C21_Witness ==
    LET run == runs[1] IN
    /\ run.videoFile # NoFile
    /\ total(run) = 2
    /\ run.pc = "done"
    /\ Events(run, "extract threw", run.cloningQueue[1].speaker.id) # {}
    /\ Events(run, "register threw", run.cloningQueue[2].speaker.id) # {}
    /\ Len(run.log) = 5

\* the call of synthesizeSegment reached generateSpeech for a speaker that
\* has a voice id
SynthForRegistered == ReachedGenerateSpeech /\ synth.speakerId \in DOMAIN voiceMap

\* every registerVoice call of a run that settled had requested the remote
\* endpoint with a real key, and had not without one
RegisterByMode ==
    \A r \in 1..Len(runs) :
        \A k \in 1..Len(runs[r].log) :
            runs[r].log[k].op \in {"registered", "register threw"}
                => (runs[r].log[k].remote <=> ~isMockMode)

\* C22 as stated: with a real key every generateSpeech call for a speaker
\* that has a voice id requests the remote endpoint, whatever the voice id
\* is, and without one none does; likewise for registerVoice
C22_BackendByModeAlone ==
    /\ RegisterByMode
    /\ SynthForRegistered => (synth.call.requested <=> ~isMockMode)

\* C22: registerVoice is served by the mode alone; a generateSpeech call for
\* a speaker that has a voice id requests the remote endpoint iff the key
\* is real and the voice id is a string that does not start with "mock_",
\* is served by the mock branch, after its delay, iff the key is absent or
\* a placeholder or the voice id is a string that starts with "mock_", and
\* otherwise (a real key and a voice id that is not a string) throws before
\* either; a call that waited settles with the result of the branch taken
C22_BackendByModeAndVoiceId ==
    /\ RegisterByMode
    /\ SynthForRegistered =>
          /\ synth.call.requested <=>
                (~isMockMode /\ synth.call.voiceId.string /\ ~synth.call.voiceId.mock)
          /\ synth.call.delayed <=>
                (isMockMode \/ (synth.call.voiceId.string /\ synth.call.voiceId.mock))
          /\ (synth.call.requested \/ synth.call.delayed) <=> synth.call.result = Unsettled
          /\ synth.call.voiceId = voiceMap[synth.speakerId]
    /\ SynthReturned =>
          /\ synth.call.delayed # synth.call.requested
          /\ synth.call.delayed <=> synth.call.result = "mock_audio_url"

\* with a real key, the demo path has stored its placeholder for a speaker
\* and generateSpeech for the speaker took the mock branch
C22_Witness ==
    /\ SynthForRegistered
    /\ apiKey = "key"
    /\ synth.call.voiceId = DemoVoiceId(synth.speakerId)
    /\ synth.call.delayed
    /\ ~synth.call.requested

\* the run waits for a call of extractAudioClip or registerVoice
Waiting(run) == run.pc \in {"extract", "register"}

\* C23: as long as a call of extractAudioClip or registerVoice of a run has
\* not returned, no call has been made for a later queued speaker, every
\* later queued speaker is PENDING, and isReady is false; a call that never
\* returns leaves the run in this state for ever, as only the return of
\* the call takes the run on
C23_HungCallBlocks ==
    LET run == runs[1] IN
    (run.videoFile # NoFile /\ Waiting(run)) =>
        /\ \A q \in (run.completedCount + 2)..total(run) :
              /\ \A k \in 1..Len(run.log) :
                    run.log[k].speaker # run.cloningQueue[q].speaker.id
              /\ StatusIs(run.cloningQueue[q].speaker.id, PENDING)
        /\ run.log[Len(run.log)].speaker = item(run).speaker.id
        /\ run.log[Len(run.log)].op = run.pc
        /\ state.isReady = FALSE

\* the first of two queued speakers was extracted and its registration has
\* not returned
C23_Witness ==
    LET run == runs[1] IN
    /\ run.videoFile # NoFile
    /\ total(run) = 2
    /\ run.completedCount = 0
    /\ run.pc = "register"
    /\ StatusIs(run.cloningQueue[2].speaker.id, PENDING)
    /\ state.isReady = FALSE

\* C24: a speaker whose status is CLONED, in the written state or in the
\* render that made the callback, has a voice id in voiceMap, and a call of
\* synthesizeSegment that the availability check admits on a rendered
\* status CLONED does not end in "No voice registered"
C24_ClonedHasVoice ==
    /\ \A id \in DOMAIN state.speakerStatus :
          state.speakerStatus[id] = CLONED => id \in DOMAIN voiceMap
    /\ \A id \in DOMAIN callback.speakerStatus :
          callback.speakerStatus[id] = CLONED => id \in DOMAIN voiceMap
    /\ (SynthCalled /\ RenderedStatusIs(synth.speakerId, CLONED)) =>
          (/\ synth.call.result \notin {"No voice registered", "Voice not available"}
           /\ synth.call.voiceId = voiceMap[synth.speakerId])

\* two runs have started and the second waits for a call; the host holds
\* the callback of a render with a media source in which a speaker was
\* CLONED, the newer run has since reset that speaker to PENDING, and a
\* synthesis for it through that callback requested the remote endpoint
C24_Witness ==
    /\ SynthCalled
    /\ RenderedWithFile
    /\ Len(runs) = 2
    /\ Waiting(runs[2])
    /\ RenderedStatusIs(synth.speakerId, CLONED)
    /\ StatusIs(synth.speakerId, PENDING)
    /\ synth.call.requested

\* C25: when isReady is true, every speaker of the current analysis result
\* that has a segment is CLONED or FAILED, and speakerStatus has no entry
\* for a speaker that is not in the current analysis result
C25_ReadyMeansSettled ==
    (state.isReady = TRUE /\ analysisResult # NoResult) =>
        /\ \A id \in Ids(analysisResult) :
              HasSegment(analysisResult, id) =>
                  (StatusIs(id, CLONED) \/ StatusIs(id, FAILED))
        /\ DOMAIN state.speakerStatus \subseteq Ids(analysisResult)

\* the effect runs without an analysis result
ResultAbsentStep ==
    /\ effectPending /\ ~effectPending'
    /\ analysisResult = NoResult

\* C26: the step that makes the analysis result absent sets isReady to
\* false and progress to '' and leaves speakerStatus as it was; while the
\* result stays absent (no run starts) a CLONED entry stays CLONED, and a
\* call of synthesizeSegment for a CLONED speaker passes the availability
\* check
C26_AbsentResultKeepsStatus ==
    [][/\ ResultAbsentStep =>
             /\ state'.isReady = FALSE
             /\ state'.progress = NoProgress
             /\ state'.speakerStatus = state.speakerStatus
       /\ (analysisResult = NoResult /\ analysisResult' = NoResult) =>
             \A id \in DOMAIN state.speakerStatus :
                 state.speakerStatus[id] = CLONED =>
                     (id \in DOMAIN state'.speakerStatus /\ state'.speakerStatus[id] = CLONED)
       /\ (analysisResult = NoResult /\ SynthCalled
              /\ RenderedStatusIs(synth.speakerId, CLONED))' =>
             synth'.call # VoiceNotAvailable]_vars

====
